---- MODULE Spec2Model ----
(***************************************************************************)
(* voctodeck: a Stream Deck control panel for a voctomix video mixer.      *)
(*                                                                         *)
(* The module models src/voctodeck.py: the BUTTONS table, the byte-level   *)
(* parsing that RecvThread applies to the mixer's status socket, the four  *)
(* worker threads (RecvThread, TickThread, I3Thread, VideoThread) and the  *)
(* deck's key callback.  Python strings and bytes are sequences of         *)
(* one-character strings, so that strip, split, slicing and json.loads are *)
(* computed on the characters as the interpreter computes them.            *)
(***************************************************************************)
EXTENDS Integers, Sequences, FiniteSets, TLC

(***************************************************************************)
(* String literals of the source.                                          *)
(***************************************************************************)

composite_mode_and_video_status ==
    <<"c","o","m","p","o","s","i","t","e","_","m","o","d","e","_","a","n","d","_","v","i","d","e","o","_","s","t","a","t","u","s">>

stream_status ==
    <<"s","t","r","e","a","m","_","s","t","a","t","u","s">>

audio_status ==
    <<"a","u","d","i","o","_","s","t","a","t","u","s">>

blank ==
    <<"b","l","a","n","k">>

fullscreen ==
    <<"f","u","l","l","s","c","r","e","e","n">>

picture_in_picture ==
    <<"p","i","c","t","u","r","e","_","i","n","_","p","i","c","t","u","r","e">>

side_by_side_preview ==
    <<"s","i","d","e","_","b","y","_","s","i","d","e","_","p","r","e","v","i","e","w">>

side_by_side_equal ==
    <<"s","i","d","e","_","b","y","_","s","i","d","e","_","e","q","u","a","l">>

slides ==
    <<"s","l","i","d","e","s">>

cam ==
    <<"c","a","m">>

live ==
    <<"l","i","v","e">>

pause ==
    <<"p","a","u","s","e">>

nostream ==
    <<"n","o","s","t","r","e","a","m">>

set_videos_and_composite ==
    <<"s","e","t","_","v","i","d","e","o","s","_","a","n","d","_","c","o","m","p","o","s","i","t","e">>

set_audio ==
    <<"s","e","t","_","a","u","d","i","o">>

set_stream_blank ==
    <<"s","e","t","_","s","t","r","e","a","m","_","b","l","a","n","k">>

set_stream_live ==
    <<"s","e","t","_","s","t","r","e","a","m","_","l","i","v","e">>

SP == <<" ">>
NL == <<"\n">>

(***************************************************************************)
(* Python string operations used by RecvThread.run.                        *)
(***************************************************************************)
\* The bytes a payload can hold that are not valid UTF-8 (one stand-in).
BadByte == "\\xff"

\* bytes.decode('utf-8'): the text itself for well-formed bytes (the protocol
\* is ASCII), UnicodeDecodeError for a byte sequence that is not UTF-8.
DecodeFails(bytes) == \E i \in 1..Len(bytes) : bytes[i] = BadByte

\* str.strip() and json's whitespace: space, newline, tab, carriage return.
IsSpace(c) == c \in {" ", "\n", "\t", "\r"}

RECURSIVE LStrip(_)
LStrip(str) ==
    IF str # <<>> /\ IsSpace(Head(str)) THEN LStrip(Tail(str)) ELSE str

RECURSIVE RStrip(_)
RStrip(str) ==
    IF str # <<>> /\ IsSpace(str[Len(str)])
    THEN RStrip(SubSeq(str, 1, Len(str) - 1))
    ELSE str

Strip(str) == RStrip(LStrip(str))

\* str.split(sep) for a one-character separator: every occurrence of sep
\* cuts, empty pieces are kept, and the empty string yields [''].
Split(str, sep) ==
    LET cuts == {i \in 1..Len(str) : str[i] = sep}
        \* the j-th cut from the left; 0 before the first, Len + 1 after the last
        Cut(j) == IF j = 0 THEN 0
                  ELSE IF j > Cardinality(cuts) THEN Len(str) + 1
                  ELSE CHOOSE c \in cuts : Cardinality({d \in cuts : d < c}) = j - 1
    IN [j \in 1..(Cardinality(cuts) + 1) |-> SubSeq(str, Cut(j - 1) + 1, Cut(j) - 1)]

\* sep.join(list)
RECURSIVE Join(_, _)
Join(list, sep) ==
    IF list = <<>> THEN <<>>
    ELSE IF Len(list) = 1 THEN list[1]
    ELSE list[1] \o sep \o Join(Tail(list), sep)

\* str[n:]
SliceFrom(str, n) == SubSeq(str, n + 1, Len(str))

(***************************************************************************)
(* json.loads, for the payloads RecvThread reads: an object whose keys are *)
(* strings and whose values are non-negative integers.  The result is      *)
(* [err |-> TRUE] where json.loads raises or returns something that cannot *)
(* be subscripted by a channel name, and otherwise the list of the         *)
(* object's (key, value) pairs in the order of the text.                   *)
(***************************************************************************)
JsonError == [err |-> TRUE, obj |-> <<>>]

Digits == <<"0", "1", "2", "3", "4", "5", "6", "7", "8", "9">>

IsDigit(c) == \E d \in 1..10 : Digits[d] = c

DigitValue(c) == (CHOOSE d \in 1..10 : Digits[d] = c) - 1

RECURSIVE SkipWs(_, _)
SkipWs(str, i) ==
    IF i <= Len(str) /\ IsSpace(str[i]) THEN SkipWs(str, i + 1) ELSE i

\* index of the quote that closes a string whose text starts at i, 0 if none
RECURSIVE ScanString(_, _)
ScanString(str, i) ==
    IF i > Len(str) THEN 0
    ELSE IF str[i] = "\"" THEN i
    ELSE ScanString(str, i + 1)

\* first index at or after i that holds no digit
RECURSIVE ScanDigits(_, _)
ScanDigits(str, i) ==
    IF i <= Len(str) /\ IsDigit(str[i]) THEN ScanDigits(str, i + 1) ELSE i

RECURSIVE NumberValue(_, _, _, _)
NumberValue(str, i, end, acc) ==
    IF i >= end THEN acc
    ELSE NumberValue(str, i + 1, end, 10 * acc + DigitValue(str[i]))

\* the members of an object, str[i] being where a key is expected
RECURSIVE ParseMembers(_, _, _)
ParseMembers(str, i, acc) ==
    IF i > Len(str) \/ str[i] # "\"" THEN JsonError
    ELSE LET q == ScanString(str, i + 1) IN
    IF q = 0 THEN JsonError
    ELSE LET c == SkipWs(str, q + 1) IN
    IF c > Len(str) \/ str[c] # ":" THEN JsonError
    ELSE LET v == SkipWs(str, c + 1)
             e == ScanDigits(str, v) IN
    IF e = v \/ (e > v + 1 /\ str[v] = "0") THEN JsonError
    ELSE LET key == SubSeq(str, i + 1, q - 1)
             val == NumberValue(str, v, e, 0)
             got == Append(acc, <<key, val>>)
             n == SkipWs(str, e) IN
    IF n > Len(str) THEN JsonError
    ELSE IF str[n] = "," THEN ParseMembers(str, SkipWs(str, n + 1), got)
    ELSE IF str[n] = "}" /\ SkipWs(str, n + 1) > Len(str)
         THEN [err |-> FALSE, obj |-> got]
    ELSE JsonError

JsonLoads(str) ==
    LET b == SkipWs(str, 1) IN
    IF b > Len(str) \/ str[b] # "{" THEN JsonError
    ELSE LET m == SkipWs(str, b + 1) IN
    IF m <= Len(str) /\ str[m] = "}"
    THEN IF SkipWs(str, m + 1) > Len(str)
         THEN [err |-> FALSE, obj |-> <<>>]
         ELSE JsonError
    ELSE ParseMembers(str, m, <<>>)

\* p[key] on a parsed object: the value of the last member named key
HasKey(p, key) == \E i \in 1..Len(p.obj) : p.obj[i][1] = key

GetItem(p, key) ==
    LET last == CHOOSE i \in 1..Len(p.obj) :
                    /\ p.obj[i][1] = key
                    /\ \A j \in (i + 1)..Len(p.obj) : p.obj[j][1] # key
    IN p.obj[last][2]

(***************************************************************************)
(* The button table.  A key of the deck is an index into BUTTONS, counted  *)
(* from 0 as in the source.                                                *)
(***************************************************************************)
Button(label) ==
    [class |-> "Button", label |-> label]

SceneButton(label, layout, inputs) ==
    [class |-> "SceneButton", label |-> label, layout |-> layout,
     inputs |-> inputs, scene |-> Join(inputs, SP) \o SP \o layout]

AudioButton(label, channel) ==
    [class |-> "AudioButton", label |-> label, channel |-> channel]

StreamButton(label, state, isblank) ==
    [class |-> "StreamButton", label |-> label, state |-> state, blank |-> isblank]

ExecButton(label, cmd) ==
    [class |-> "ExecButton", label |-> label, cmd |-> cmd]

I3workspaceButton(label, workspace) ==
    [class |-> "I3workspaceButton", label |-> label, workspace |-> workspace]

ExecUpdateButton(label, cmd, update) ==
    [class |-> "ExecUpdateButton", label |-> label, cmd |-> cmd, update |-> update]

BUTTONS ==
    << SceneButton("PC FULL", fullscreen, <<slides, cam>>),
       SceneButton("CAM FULL", fullscreen, <<cam, slides>>),
       SceneButton("Picture in Picture", picture_in_picture, <<slides, cam>>),
       StreamButton("STREAM LIVE", live, FALSE),
       ExecButton("WP7", "i3-msg workspace 7"),

       AudioButton("PC AUDIO", slides),
       AudioButton("CAM AUDIO", cam),
       SceneButton("Side-by-side preview", side_by_side_preview, <<slides, cam>>),
       StreamButton("STREAM PAUSE", pause, TRUE),
       ExecUpdateButton("YK", "systemctl --user restart yubikey-agent",
                        "systemctl --user status yubikey-agent >/dev/null"),

       Button("PC RESTART"),
       Button("CAM RESTART"),
       SceneButton("Side-by-side equal", side_by_side_equal, <<slides, cam>>),
       StreamButton("NO STREAM", nostream, TRUE),
       ExecUpdateButton("MIC MUTE", "./micmute.sh",
                        "amixer get Digital | grep -Fq \"Capture 0 [\"") >>

\* deck.key_count(): the deck the table is laid out for has one key per entry
key_count == Len(BUTTONS)

Keys == 0..(key_count - 1)

Btn(key) == BUTTONS[key + 1]

\* the result of dict.get for a key the dictionary does not hold
None == -1

KeysOfClass(class) == {k \in Keys : Btn(k).class = class}

\* the keys of a set in table order, as the registries are filled
RECURSIVE InOrder(_, _)
InOrder(keys, k) ==
    IF k >= key_count THEN <<>>
    ELSE (IF k \in keys THEN <<k>> ELSE <<>>) \o InOrder(keys, k + 1)

SceneKeys == KeysOfClass("SceneButton")
StreamKeys == KeysOfClass("StreamButton")
AudioKeys == KeysOfClass("AudioButton")
UpdateKeys == KeysOfClass("ExecUpdateButton")
I3Keys == KeysOfClass("I3workspaceButton")

\* a registration in the order of the command: tuple(inputs + [layout])
SceneTupleAsSent(key) == Btn(key).inputs \o <<Btn(key).layout>>

\* the tuple a scene button is registered under: tuple([layout] + inputs)
SceneTuple(key) == <<Btn(key).layout>> \o Btn(key).inputs

\* a lookup that compares the layout only
SCENE_BUTTONS_get_layout(t) ==
    LET hits == {k \in SceneKeys : t # <<>> /\ Btn(k).layout = t[1]} IN
    IF hits = {} THEN None ELSE CHOOSE k \in hits : \A h \in hits : h <= k

\* SCENE_BUTTONS.get(t), SCENE_BUTTONS[tuple([layout] + inputs)] = self: a
\* later button with the same tuple replaces an earlier one.
SCENE_BUTTONS_get(t) ==
    LET hits == {k \in SceneKeys : SceneTuple(k) = t} IN
    IF hits = {} THEN None ELSE CHOOSE k \in hits : \A h \in hits : h <= k

\* a lookup that takes every status for a blanked one
STREAM_BUTTONS_get_blank(state, isblank) ==
    LET hits == {k \in StreamKeys : Btn(k).state = state /\ Btn(k).blank} IN
    IF hits = {} THEN None ELSE CHOOSE k \in hits : \A h \in hits : h <= k

\* STREAM_BUTTONS.get((state, blank)), STREAM_BUTTONS[state, blank] = self
STREAM_BUTTONS_get(state, isblank) ==
    LET hits == {k \in StreamKeys : Btn(k).state = state /\ Btn(k).blank = isblank} IN
    IF hits = {} THEN None ELSE CHOOSE k \in hits : \A h \in hits : h <= k

\* I3BUTTONS.get(workspace)
I3BUTTONS_get(num) ==
    LET hits == {k \in I3Keys : Btn(k).workspace = num} IN
    IF hits = {} THEN None ELSE CHOOSE k \in hits : \A h \in hits : h <= k

AUDIO_BUTTONS == InOrder(AudioKeys, 0)

UPDATE_BUTTONS == InOrder(UpdateKeys, 0)

\* render_key_image: the highlight is drawn iff btn.selected; the label is fixed
render_key_image(sel) == IF sel THEN "highlight" ELSE "label"

\* the bytes pressed() writes to the mixer socket, <<>> for a button that
\* writes none
MixerCommand(key) ==
    LET b == Btn(key) IN
    IF b.class = "SceneButton" THEN set_videos_and_composite \o SP \o b.scene \o NL
    ELSE IF b.class = "AudioButton" THEN set_audio \o SP \o b.channel \o NL
    ELSE IF b.class = "StreamButton"
         THEN (IF b.blank THEN set_stream_blank \o SP \o b.state ELSE set_stream_live) \o NL
    ELSE <<>>

\* the command pressed() launches with Popen, "" for a button that launches none
LaunchedCommand(key) ==
    LET b == Btn(key) IN
    IF b.class \in {"ExecButton", "ExecUpdateButton"} THEN b.cmd
    ELSE IF b.class = "I3workspaceButton" THEN "i3-msg workspace"
    ELSE ""

(***************************************************************************)
(* What the environment can deliver.                                       *)
(***************************************************************************)
\* Status lines of the mixer, without the terminating newline.
LineScenePc == composite_mode_and_video_status \o SP \o fullscreen \o SP \o slides \o SP \o cam
LineSceneCam == composite_mode_and_video_status \o SP \o fullscreen \o SP \o cam \o SP \o slides
\* a composition no button is registered for
LineSceneOther == composite_mode_and_video_status \o SP \o side_by_side_equal \o SP \o cam \o SP \o slides
LineStreamPause == stream_status \o SP \o blank \o SP \o pause
LineStreamLive == stream_status \o SP \o live
LineStreamBare == stream_status
JsonPcOn ==
    <<"{","\"","s","l","i","d","e","s","\"",":"," ","1",","," ","\"","c","a","m","\"",":"," ","0","}">>
JsonCamOn ==
    <<"{","\"","s","l","i","d","e","s","\"",":"," ","0",","," ","\"","c","a","m","\"",":"," ","1","}">>
JsonBothOn ==
    <<"{","\"","s","l","i","d","e","s","\"",":"," ","1",","," ","\"","c","a","m","\"",":"," ","1","}">>
JsonNoCam ==
    <<"{","\"","s","l","i","d","e","s","\"",":"," ","1","}">>
LineAudioPc == audio_status \o SP \o JsonPcOn
LineAudioBoth == audio_status \o SP \o JsonBothOn
LineAudioNoCam == audio_status \o SP \o JsonNoCam
LineAudioLabelled ==
    audio_status \o SP \o <<"A","U","D","I","O","_","S","T","A","T","U","S",":">> \o SP \o JsonPcOn
LineAudioText ==
    audio_status \o SP \o <<"u","n","k","n","o","w","n">>
LineVideoStatus ==
    <<"v","i","d","e","o","_","s","t","a","t","u","s"," ","s","l","i","d","e","s"," ","c","a","m">>
LineEmpty == <<>>
LineBadBytes == <<BadByte>>

Lines ==
    { LineScenePc, LineSceneCam, LineSceneOther,
      LineStreamPause, LineStreamLive, LineStreamBare,
      LineAudioPc, LineAudioBoth, LineAudioNoCam, LineAudioLabelled,
      LineAudioText, LineVideoStatus, LineEmpty, LineBadBytes }

\* the longest stream the mixer sends, in lines
MaxLines == 2

RECURSIVE StreamsOf(_, _)
StreamsOf(lines, n) ==
    IF n = 0 THEN {<<>>}
    ELSE LET shorter == StreamsOf(lines, n - 1) IN
         shorter \cup {s \o l \o NL : s \in shorter, l \in lines}

Streams == StreamsOf(Lines, MaxLines)

\* the streams used where the status reader runs against the command poller
PanelStreams ==
    { LineScenePc \o NL \o LineSceneCam \o NL,
      LineStreamLive \o NL \o LineStreamLive \o NL,
      LineAudioPc \o NL }

\* s.recv(1024)
RecvSize == 1024

\* Where TCP may cut the stream inside a line; it always may after a newline
\* and at the end of what has arrived.
SplitPoints == {42}

ChunkLens(bytes) ==
    {n \in 1..Len(bytes) :
        /\ n <= RecvSize
        /\ n = Len(bytes) \/ bytes[n] = "\n" \/ n \in SplitPoints}

\* The status line by which the mixer reports a command it has carried out,
\* <<>> for what is no command; set_audio puts the named channel at 1 and the
\* other at 0.
StatusFor(cmd) ==
    LET t == Split(Strip(cmd), " ") IN
    IF t[1] = set_videos_and_composite /\ Len(t) = 4
    THEN composite_mode_and_video_status \o SP \o t[4] \o SP \o t[2] \o SP \o t[3]
    ELSE IF t[1] = set_stream_blank /\ Len(t) = 2
    THEN stream_status \o SP \o blank \o SP \o t[2]
    ELSE IF t[1] = set_stream_live /\ Len(t) = 1
    THEN stream_status \o SP \o live
    ELSE IF t[1] = set_audio /\ Len(t) = 2
    THEN audio_status \o SP \o (IF t[2] = slides THEN JsonPcOn ELSE JsonCamOn)
    ELSE <<>>

\* exit statuses of a predicate command
ExitCodes == {0, 1}

\* Outputs of `i3-msg -t get_workspaces`: the workspaces with their visible
\* flag, and the rest of the text (names, focus, geometry) as one number.
I3Outputs ==
    { [ws |-> <<[num |-> 7, visible |-> TRUE]>>, rest |-> 0],
      [ws |-> <<[num |-> 7, visible |-> TRUE]>>, rest |-> 1],
      [ws |-> <<[num |-> 7, visible |-> FALSE], [num |-> 8, visible |-> TRUE]>>, rest |-> 0] }

\* json.loads of an output, as far as I3Thread reads it
I3Workspaces(raw) == raw.ws

\* conn.recv(11664): a whole frame of 72 x 54 RGB pixels
FrameSize == 11664

\* the lengths a read of the video connection returns
VideoReads == {0, 5832, FrameSize}

\* last_json = None
NoJson == [ws |-> <<>>, rest |-> None]

\* a row no split yields, for "no row yet"
NoRow == NL

(***************************************************************************)
(* State.                                                                  *)
(***************************************************************************)
VARIABLES
    selected,      \* Button.selected of every button
    image,         \* the image last set on every key of the deck
    net,           \* bytes the mixer has sent and recv has not returned yet
    peer,          \* "up", or "down" once the mixer has closed the connection
    sock,          \* the panel's end of the connection, s: "open" or "closed"
    eof,           \* a recv on s has returned b''
    kev,           \* the last key event the callback handled, <<key, state>>
    called,        \* the keys whose pressed() that callback ran, in order
    out,           \* the bytes that callback wrote to the mixer socket
    launched,      \* the command that callback launched
    rpc,           \* RecvThread: where it is
    rows,          \* RecvThread: rows of the chunk still to be processed
    row,           \* RecvThread: the row being processed
    prow,          \* the row processed before it
    raud,          \* RecvThread: position in AUDIO_BUTTONS
    rkey,          \* RecvThread: key of the redraw loop
    rimg,          \* RecvThread: the image rendered for that key
    rwrites,       \* images RecvThread has set for the current row
    tpc,           \* TickThread: where it is
    ti,            \* TickThread: position in UPDATE_BUTTONS
    needs_update,  \* TickThread: needs_update
    old,           \* TickThread: old, per update button
    rc,            \* TickThread: exit status of this round, per update button
    tkey,          \* TickThread: key of the redraw loop
    timg,          \* TickThread: the image rendered for that key
    twrites,       \* images TickThread has set in the current round
    ipc,           \* I3Thread: where it is
    workspaces,    \* I3Thread: workspaces, the output of the last query
    last_json,     \* I3Thread: last_json
    ishort,        \* I3Thread: the last round found workspaces == last_json
    vpc,           \* VideoThread: where it is
    voff,          \* VideoThread: bytes read from the video connection
    frame          \* VideoThread: len(frame) of the last recv

deviceVars == <<selected, image>>
mixerVars == <<net, peer, sock, eof>>
keyVars == <<kev, called, out, launched>>
recvVars == <<rpc, rows, row, prow, raud, rkey, rimg, rwrites>>
tickVars == <<tpc, ti, needs_update, old, rc, tkey, timg, twrites>>
i3Vars == <<ipc, workspaces, last_json, ishort>>
videoVars == <<vpc, voff, frame>>
vars == <<deviceVars, mixerVars, keyVars, recvVars, tickVars, i3Vars, videoVars>>

\* The program once __main__ has drawn every key and started the threads.
Started ==
    /\ selected = [k \in Keys |-> FALSE]
    /\ image = [k \in Keys |-> render_key_image(FALSE)]
    /\ peer = "up"
    /\ sock = "open"
    /\ eof = FALSE
    /\ kev = <<>>
    /\ called = <<>>
    /\ out = <<>>
    /\ launched = ""
    /\ rpc = "recv" /\ rows = <<>> /\ row = NoRow /\ prow = NoRow
    /\ raud = 1 /\ rkey = 0 /\ rimg = render_key_image(FALSE) /\ rwrites = 0
    /\ tpc = "poll" /\ ti = 1 /\ needs_update = FALSE
    /\ old = [k \in UpdateKeys |-> FALSE]
    /\ rc = [k \in UpdateKeys |-> None]
    /\ tkey = 0 /\ timg = render_key_image(FALSE) /\ twrites = 0
    /\ ipc = "query" /\ workspaces = NoJson /\ last_json = NoJson /\ ishort = FALSE
    /\ vpc = "accept" /\ voff = 0 /\ frame = 0

Init == Started /\ net \in Streams

(***************************************************************************)
(* RecvThread.run                                                          *)
(***************************************************************************)
\* data = row.split(' ')
Data(r) == Split(r, " ")

\* a chain whose last branch takes every other row for a stream status
RowKindElse(data) ==
    IF data[1] = composite_mode_and_video_status THEN "scene"
    ELSE IF data[1] = audio_status THEN "audio"
    ELSE "stream"

\* the branch of the if/elif chain on data[0]
RowKind(data) ==
    IF data[1] = composite_mode_and_video_status THEN "scene"
    ELSE IF data[1] = stream_status THEN "stream"
    ELSE IF data[1] = audio_status THEN "audio"
    ELSE "other"

\* a payload cut after a label, row[27:]
PayloadLabelled(r) == SliceFrom(r, 27)

\* row[13:], the text json.loads is given
Payload(r) == SliceFrom(r, 13)

\* a loop that deselects nothing
DeselectNothing(sel, keys) == sel

\* for v in <registry>.values(): v.selected = False
Deselect(sel, keys) == [k \in Keys |-> IF k \in keys THEN FALSE ELSE sel[k]]

\* the next position once a row is done: the next row, or the next recv
AfterRow(rest) == IF rest = <<>> THEN "recv" ELSE "row"

\* s.recv(1024).decode('utf-8').strip().split('\n'): recv returns some bytes
\* of what has arrived, or b'' once the peer has closed and nothing is left.
RecvRead ==
    /\ rpc = "recv"
    /\ \E chunk \in {SubSeq(net, 1, n) : n \in ChunkLens(net)}
                \cup (IF net = <<>> /\ peer = "down" THEN {<<>>} ELSE {}) :
        /\ net' = SliceFrom(net, Len(chunk))
        /\ eof' = (eof \/ chunk = <<>>)
        /\ IF DecodeFails(chunk)
           THEN rpc' = "dead" /\ rows' = rows
           ELSE rpc' = "row" /\ rows' = Split(Strip(chunk), "\n")
    /\ UNCHANGED <<deviceVars, peer, sock, keyVars, row, prow, raud, rkey, rimg, rwrites,
                   tickVars, i3Vars, videoVars>>

\* The head of the loop body: data = row.split(' ') and the branch on data[0],
\* up to the first point where the branch can raise or another thread can see
\* its effect.
RecvRow ==
    /\ rpc = "row"
    /\ LET r == Head(rows)
           data == Data(r) IN
        /\ row' = r
        /\ prow' = row
        /\ rows' = Tail(rows)
        /\ rwrites' = 0
        /\ rkey' = 0
        /\ raud' = 1
        /\ IF RowKind(data) = "scene"
           THEN selected' = Deselect(selected, SceneKeys) /\ rpc' = "scene"
           ELSE IF RowKind(data) = "stream"
           THEN selected' = Deselect(selected, StreamKeys) /\ rpc' = "stream"
           ELSE IF RowKind(data) = "audio"
           THEN /\ selected' = selected
                /\ rpc' = IF JsonLoads(Payload(r)).err THEN "dead"
                          ELSE IF AUDIO_BUTTONS = <<>> THEN "render"
                          ELSE "audio"
           ELSE selected' = selected /\ rpc' = "render"
    /\ UNCHANGED <<image, mixerVars, keyVars, rimg, tickVars, i3Vars, videoVars>>

\* b = SCENE_BUTTONS.get(tuple(data[1:])); if b is not None: b.selected = True
RecvScene ==
    /\ rpc = "scene"
    /\ LET data == Data(row)
           b == SCENE_BUTTONS_get(Tail(data)) IN
        selected' = IF b = None THEN selected ELSE [selected EXCEPT ![b] = TRUE]
    /\ rpc' = "render"
    /\ UNCHANGED <<image, mixerVars, keyVars, rows, row, prow, raud, rkey, rimg,
                   rwrites, tickVars, i3Vars, videoVars>>

\* b = STREAM_BUTTONS.get((data[-1], data[1] == 'blank')): data[1] raises
\* IndexError on a row of one token.
RecvStream ==
    /\ rpc = "stream"
    /\ LET data == Data(row) IN
        IF Len(data) < 2
        THEN rpc' = "dead" /\ selected' = selected
        ELSE LET b == STREAM_BUTTONS_get(data[Len(data)], data[2] = blank) IN
             /\ rpc' = "render"
             /\ selected' = IF b = None THEN selected
                            ELSE [selected EXCEPT ![b] = TRUE]
    /\ UNCHANGED <<image, mixerVars, keyVars, rows, row, prow, raud, rkey, rimg,
                   rwrites, tickVars, i3Vars, videoVars>>

\* for b in AUDIO_BUTTONS: b.selected = p[b.channel] == 1, one button a step;
\* p[b.channel] raises KeyError for a channel the payload does not name.
RecvAudio ==
    /\ rpc = "audio"
    /\ LET p == JsonLoads(Payload(row))
           b == AUDIO_BUTTONS[raud] IN
        IF ~HasKey(p, Btn(b).channel)
        THEN rpc' = "dead" /\ selected' = selected /\ raud' = raud
        ELSE /\ selected' = [selected EXCEPT ![b] = (GetItem(p, Btn(b).channel) = 1)]
             /\ raud' = raud + 1
             /\ rpc' = IF raud = Len(AUDIO_BUTTONS) THEN "render" ELSE "audio"
    /\ UNCHANGED <<image, mixerVars, keyVars, rows, row, prow, rkey, rimg, rwrites,
                   tickVars, i3Vars, videoVars>>

\* update_key_image, first half: image = render_key_image(deck, BUTTONS[key])
RecvRender ==
    /\ rpc = "render"
    /\ rimg' = render_key_image(selected[rkey])
    /\ rpc' = "write"
    /\ UNCHANGED <<deviceVars, mixerVars, keyVars, rows, row, prow, raud, rkey,
                   rwrites, tickVars, i3Vars, videoVars>>

\* update_key_image, second half: deck.set_key_image(key, image); then the
\* next key, the next row or the next recv.
RecvWrite ==
    /\ rpc = "write"
    /\ image' = [image EXCEPT ![rkey] = rimg]
    /\ rwrites' = rwrites + 1
    /\ IF rkey + 1 < key_count
       THEN rkey' = rkey + 1 /\ rpc' = "render"
       ELSE rkey' = rkey /\ rpc' = AfterRow(rows)
    /\ UNCHANGED <<selected, mixerVars, keyVars, rows, row, prow, raud, rimg,
                   tickVars, i3Vars, videoVars>>

RecvThread == RecvRead \/ RecvRow \/ RecvScene \/ RecvStream \/ RecvAudio
                  \/ RecvRender \/ RecvWrite

\* The mixer closes the connection; what it sent before still arrives.
PeerClose ==
    /\ peer = "up"
    /\ net = <<>>
    /\ peer' = "down"
    /\ UNCHANGED <<deviceVars, net, sock, eof, keyVars, recvVars, tickVars, i3Vars, videoVars>>

\* The mixer answers the command the last key press wrote to the socket, once
\* the status reader has taken in all it sent before.
MixerAnswer ==
    /\ peer = "up"
    /\ net = <<>>
    /\ rpc = "recv"
    /\ StatusFor(out) # <<>>
    /\ net' = StatusFor(out) \o NL
    /\ UNCHANGED <<deviceVars, peer, sock, eof, keyVars, recvVars, tickVars, i3Vars, videoVars>>

(***************************************************************************)
(* TickThread.run                                                          *)
(***************************************************************************)
\* call(btn.update, shell=True) == 0
PredicateHolds(status) == status = 0

\* an update flag that is set while the button is selected
FlippedOr(now, before) == now \/ before

\* btn.selected ^ old
Flipped(now, before) == now # before

\* old = btn.selected; btn.selected = call(btn.update, shell=True) == 0;
\* needs_update |= btn.selected ^ old, for the next update button.  call has
\* no timeout: a predicate that does not exit keeps the thread in call.
TickPoll ==
    /\ tpc = "poll"
    /\ LET b == UPDATE_BUTTONS[ti] IN
        \/ \E status \in ExitCodes :
            /\ old' = [old EXCEPT ![b] = selected[b]]
            /\ rc' = [rc EXCEPT ![b] = status]
            /\ selected' = [selected EXCEPT ![b] = PredicateHolds(status)]
            /\ needs_update' = (needs_update \/ Flipped(PredicateHolds(status), selected[b]))
            /\ IF ti = Len(UPDATE_BUTTONS)
               THEN tpc' = "check" /\ ti' = ti
               ELSE tpc' = "poll" /\ ti' = ti + 1
        \/ /\ tpc' = "hung"
           /\ UNCHANGED <<selected, old, rc, needs_update, ti>>
    /\ UNCHANGED <<image, mixerVars, keyVars, recvVars, tkey, timg, twrites,
                   i3Vars, videoVars>>

\* if needs_update: ... else straight to time.sleep(0.2)
TickCheck ==
    /\ tpc = "check"
    /\ tpc' = IF needs_update THEN "render" ELSE "sleep"
    /\ tkey' = 0
    /\ UNCHANGED <<deviceVars, mixerVars, keyVars, recvVars, ti, needs_update, old,
                   rc, timg, twrites, i3Vars, videoVars>>

TickRender ==
    /\ tpc = "render"
    /\ timg' = render_key_image(selected[tkey])
    /\ tpc' = "write"
    /\ UNCHANGED <<deviceVars, mixerVars, keyVars, recvVars, ti, needs_update, old,
                   rc, tkey, twrites, i3Vars, videoVars>>

TickWrite ==
    /\ tpc = "write"
    /\ image' = [image EXCEPT ![tkey] = timg]
    /\ twrites' = twrites + 1
    /\ IF tkey + 1 < key_count
       THEN tkey' = tkey + 1 /\ tpc' = "render"
       ELSE tkey' = tkey /\ tpc' = "sleep"
    /\ UNCHANGED <<selected, mixerVars, keyVars, recvVars, ti, needs_update, old,
                   rc, timg, i3Vars, videoVars>>

\* time.sleep(0.2), then the next round: needs_update = False
TickSleep ==
    /\ tpc = "sleep"
    /\ tpc' = "poll"
    /\ ti' = 1
    /\ needs_update' = FALSE
    /\ twrites' = 0
    /\ rc' = [k \in UpdateKeys |-> None]
    /\ UNCHANGED <<deviceVars, mixerVars, keyVars, recvVars, old, tkey, timg,
                   i3Vars, videoVars>>

TickThread == TickPoll \/ TickCheck \/ TickRender \/ TickWrite \/ TickSleep

(***************************************************************************)
(* I3Thread.run                                                            *)
(***************************************************************************)
\* the buttons the loop over json.loads(workspaces) assigns, in list order:
\* btn = I3BUTTONS.get(workspace['num']); btn.selected = workspace['visible']
RECURSIVE I3Apply(_, _)
I3Apply(sel, ws) ==
    IF ws = <<>> THEN sel
    ELSE LET btn == I3BUTTONS_get(Head(ws).num) IN
         I3Apply(IF btn = None THEN sel
                 ELSE [sel EXCEPT ![btn] = Head(ws).visible],
                 Tail(ws))

\* a comparison of the parsed workspaces, which misses a change elsewhere in
\* the output
I3DiffersParsed(raw, last) == I3Workspaces(raw) # I3Workspaces(last)

\* if workspaces != last_json: the raw outputs are compared
I3Differs(raw, last) == raw # last

\* One round up to the sleep.  check_output raises CalledProcessError when
\* i3-msg fails.  No I3workspaceButton is in BUTTONS, so no flag changes and
\* needs_update stays False: the round never redraws.
I3Poll ==
    /\ ipc = "query"
    /\ \/ /\ ipc' = "dead"
          /\ UNCHANGED <<selected, workspaces, last_json, ishort>>
       \/ \E raw \in I3Outputs :
            /\ ipc' = "sleep"
            /\ workspaces' = raw
            /\ ishort' = ~I3Differs(raw, last_json)
            /\ IF I3Differs(raw, last_json)
               THEN /\ selected' = I3Apply(selected, I3Workspaces(raw))
                    /\ last_json' = raw
               ELSE UNCHANGED <<selected, last_json>>
    /\ UNCHANGED <<image, mixerVars, keyVars, recvVars, tickVars, videoVars>>

\* time.sleep(0.2)
I3Sleep ==
    /\ ipc = "sleep"
    /\ ipc' = "query"
    /\ UNCHANGED <<deviceVars, mixerVars, keyVars, recvVars, tickVars, workspaces,
                   last_json, ishort, videoVars>>

I3Thread == I3Poll \/ I3Sleep

(***************************************************************************)
(* VideoThread.run                                                         *)
(***************************************************************************)
\* the key the video is pasted on
VideoKey == 14

\* a decoder that takes whatever bytes it is given
frombytes_any(n) == n > 0

\* Image.frombytes('RGB', (72,54), frame, 'raw') returns an image iff frame
\* holds the 72 * 54 pixels of 3 bytes, and raises ValueError otherwise
frombytes(n) == n = 72 * 54 * 3

\* conn, addr = s.accept()
VideoAccept ==
    /\ vpc = "accept"
    /\ vpc' = "recv"
    /\ UNCHANGED <<deviceVars, mixerVars, keyVars, recvVars, tickVars, i3Vars, voff, frame>>

\* frame = conn.recv(11664): b'' ends the loop, Image.frombytes raises
\* ValueError on fewer bytes than 72 * 54 * 3, a whole frame goes on the key.
VideoRecv ==
    /\ vpc = "recv"
    /\ \E n \in VideoReads :
        /\ voff' = (voff + n) % FrameSize
        /\ frame' = n
        /\ IF n = 0 THEN vpc' = "done" /\ image' = image
           ELSE IF ~frombytes(n) THEN vpc' = "dead" /\ image' = image
           ELSE vpc' = "recv" /\ image' = [image EXCEPT ![VideoKey] = "video"]
    /\ UNCHANGED <<selected, mixerVars, keyVars, recvVars, tickVars, i3Vars>>

VideoThread == VideoAccept \/ VideoRecv

(***************************************************************************)
(* key_change_callback                                                     *)
(***************************************************************************)
\* a pressed() that highlights its own button at once
PressedSelects(key) ==
    /\ called' = <<key>>
    /\ out' = MixerCommand(key)
    /\ launched' = LaunchedCommand(key)
    /\ selected' = [selected EXCEPT ![key] = TRUE]
    /\ image' = image

\* BUTTONS[key].pressed(): what it writes to the mixer and what it launches;
\* no pressed() assigns selected or sets a key image
Pressed(key) ==
    /\ called' = <<key>>
    /\ out' = MixerCommand(key)
    /\ launched' = LaunchedCommand(key)
    /\ UNCHANGED deviceVars

\* a callback that runs pressed() on every event
key_change_callback_any(key, state) ==
    /\ kev' = <<key, state>>
    /\ Pressed(key)
    /\ UNCHANGED <<mixerVars, recvVars, tickVars, i3Vars, videoVars>>

\* if state: BUTTONS[key].pressed()
key_change_callback(key, state) ==
    /\ kev' = <<key, state>>
    /\ IF state THEN Pressed(key)
       ELSE called' = <<>> /\ out' = <<>> /\ launched' = "" /\ UNCHANGED deviceVars
    /\ UNCHANGED <<mixerVars, recvVars, tickVars, i3Vars, videoVars>>

KeyEvent == \E key \in Keys, state \in BOOLEAN : key_change_callback(key, state)

(***************************************************************************)
(* Specifications.                                                         *)
(***************************************************************************)
\* the whole program
Next == RecvThread \/ PeerClose \/ TickThread \/ I3Thread \/ VideoThread \/ KeyEvent

Spec == Init /\ [][Next]_vars

\* the status reader on every stream of Streams
NextStatus == RecvThread \/ PeerClose

SpecStatus == Init /\ [][NextStatus]_vars

\* the status reader against the command poller
InitPanel == Started /\ net \in PanelStreams

NextPanel == RecvThread \/ TickThread

SpecPanel == InitPanel /\ [][NextPanel]_vars

\* the key callback and the pollers, with a silent mixer and no video source
InitLocal == Started /\ net = <<>>

NextLocal == KeyEvent \/ TickThread \/ I3Thread

SpecLocal == InitLocal /\ [][NextLocal]_vars

\* the same under the scheduling of the interpreter: a thread that can run
\* does run
FairLocal == SpecLocal /\ WF_vars(TickThread) /\ WF_vars(I3Thread)

\* Key presses, the mixer's answers to them and the status reader.  The
\* callback and the reader share no variable, so their steps commute and the
\* key events are taken while the reader waits in recv for the next answer.
KeyEventAtRecv == rpc = "recv" /\ net = <<>> /\ KeyEvent

NextRound == KeyEventAtRecv \/ MixerAnswer \/ RecvThread

SpecRound == InitLocal /\ [][NextRound]_vars

\* the video reader against the command poller, which draws on the same key
NextVideo == VideoThread \/ TickThread

SpecVideo == InitLocal /\ [][NextVideo]_vars

(***************************************************************************)
(* Properties.                                                             *)
(***************************************************************************)
\* the buttons of a group that are selected
SelectedIn(keys) == {k \in keys : selected[k]}

\* the key of the button with a label
KeyOf(label) == CHOOSE k \in Keys : Btn(k).label = label

\* the first token of a row, data[0]
FirstToken(r) == Split(r, " ")[1]

\* RecvThread has processed `row` to the end, redraw included, and nothing
\* of a later row yet
RowDone == rpc \in {"recv", "row"} /\ rwrites = key_count

\* C1, as stated: once a composite_mode_and_video_status line has been
\* processed, the scene button registered for its (mode, input-a, input-b) is
\* selected and no other, so exactly one scene button is selected.
C1_ExactlyOneSceneSelected ==
    (RowDone /\ row \in Lines /\ FirstToken(row) = composite_mode_and_video_status)
        => \E k \in SceneKeys :
              /\ SceneTuple(k) = Tail(Split(row, " "))
              /\ SelectedIn(SceneKeys) = {k}

\* C1, amended: once a composite_mode_and_video_status line has been
\* processed, the selected scene buttons are exactly the buttons registered
\* for the tokens of that line, whatever came before: one button when the
\* composition has a button, none when it has not, never two.
C1_LastSceneLineWins ==
    (RowDone /\ FirstToken(row) = composite_mode_and_video_status)
        => /\ SelectedIn(SceneKeys) = {k \in SceneKeys : SceneTuple(k) = Tail(Split(row, " "))}
           /\ Cardinality(SelectedIn(SceneKeys)) <= 1

\* a second scene line has replaced the selection of the first
C1_Witness ==
    /\ RowDone
    /\ prow = LineScenePc
    /\ row = LineSceneCam
    /\ SelectedIn(SceneKeys) = {KeyOf("CAM FULL")}

\* C2: in every state, also between the two halves of applying a scene line
\* and whatever the command poller is doing, at most one scene button is
\* selected.
C2_AtMostOneScene == Cardinality(SelectedIn(SceneKeys)) <= 1

\* the reader is between deselecting the first scene and selecting the
\* second while the poller is in its redraw
C2_Witness ==
    /\ rpc = "scene"
    /\ prow = LineScenePc
    /\ row = LineSceneCam
    /\ SelectedIn(SceneKeys) = {}
    /\ tpc = "write"

\* C3: after `stream_status blank pause` the pause button is the selected
\* stream button, after a following `stream_status live` the live button is
\* and the pause button is not, and no state has two stream buttons selected.
C3_PauseThenLive ==
    /\ Cardinality(SelectedIn(StreamKeys)) <= 1
    /\ (RowDone /\ row = LineStreamPause)
           => SelectedIn(StreamKeys) = {KeyOf("STREAM PAUSE")}
    /\ (RowDone /\ row = LineStreamLive /\ prow = LineStreamPause)
           => SelectedIn(StreamKeys) = {KeyOf("STREAM LIVE")}

C3_Witness ==
    /\ RowDone
    /\ prow = LineStreamPause
    /\ row = LineStreamLive
    /\ selected[KeyOf("STREAM LIVE")]
    /\ ~selected[KeyOf("STREAM PAUSE")]

\* C4, as stated: once the reader is past the line
\* `audio_status AUDIO_STATUS: {"slides": 1, "cam": 0}` the PC AUDIO button is
\* selected and the CAM AUDIO button is not.
C4_LabelledAudioLine ==
    (row = LineAudioLabelled /\ rpc # "audio")
        => selected[KeyOf("PC AUDIO")] /\ ~selected[KeyOf("CAM AUDIO")]

\* C4, amended: the line `audio_status {"slides": 1, "cam": 0}`, the payload
\* straight after the prefix, does not end the reader (which ends, if at all,
\* after the redraw for the line), and once the reader is past the line the
\* PC AUDIO button is selected and the CAM AUDIO button is not.
C4_AudioLine ==
    row = LineAudioPc
        => /\ rpc = "dead" => rwrites = key_count
           /\ rpc # "audio"
                  => selected[KeyOf("PC AUDIO")] /\ ~selected[KeyOf("CAM AUDIO")]

\* the line has switched the CAM AUDIO button off
C4_Witness ==
    /\ RowDone
    /\ prow = LineAudioBoth
    /\ row = LineAudioPc
    /\ selected[KeyOf("PC AUDIO")]
    /\ ~selected[KeyOf("CAM AUDIO")]

\* the known prefixes
KnownPrefixes == {composite_mode_and_video_status, stream_status, audio_status}

\* C5, as stated: a fact equal to the current state changes nothing and draws
\* nothing.  For the status reader: while and after it processes a status
\* line equal to the line before, the flags of the line's group are as that
\* line left them and no key image has been set for the second line.  For the
\* command poller: a round in which every predicate gave the result of the
\* round before sets no key image.
C5_RepeatedFactIsNoOp ==
    /\ (row = prow /\ row \in Lines /\ FirstToken(row) \in KnownPrefixes)
           => /\ rwrites = 0
              /\ FirstToken(row) = stream_status
                    => SelectedIn(StreamKeys) =
                          {k \in StreamKeys : <<stream_status>>
                                \o (IF Btn(k).blank THEN <<blank>> ELSE <<>>)
                                \o <<Btn(k).state>> = Split(row, " ")}
    /\ (tpc \in {"check", "render", "write", "sleep"}
            /\ \A b \in UpdateKeys : selected[b] = old[b])
           => twrites = 0

\* C6: an update button is selected iff its predicate exited with status 0 in
\* the poll of this round, its flag changes in no other way, the round
\* redraws iff some update button flipped in it, and a redraw sets every key
\* image once.
C6_UpdateButtonFollowsPredicate ==
    /\ [](\A b \in UpdateKeys : rc[b] # None => (selected[b] <=> rc[b] = 0))
    /\ [][\A b \in UpdateKeys :
            selected'[b] # selected[b]
                => rc'[b] # None /\ (selected'[b] <=> rc'[b] = 0)]_vars
    /\ [](tpc = "check"
            => (needs_update <=> \E b \in UpdateKeys : selected[b] # old[b]))
    /\ [](tpc \in {"render", "write"} => needs_update /\ twrites = tkey)
    /\ [](tpc = "sleep"
            => twrites = IF \E b \in UpdateKeys : selected[b] # old[b]
                         THEN key_count ELSE 0)

\* the YK predicate has turned to success and the round has drawn the panel
C6_Witness ==
    /\ tpc = "sleep"
    /\ rc[KeyOf("YK")] = 0
    /\ ~old[KeyOf("YK")]
    /\ selected[KeyOf("YK")]
    /\ twrites = key_count

\* the panel as the exit button is to leave it: no key image left, the mixer
\* connection closed, every adapter loop left
Stopped ==
    /\ \A k \in Keys : image[k] = "cleared"
    /\ sock = "closed"
    /\ rpc \in {"done", "dead"}
    /\ tpc \in {"done", "dead"}
    /\ ipc \in {"done", "dead"}
    /\ vpc \in {"done", "dead"}

\* C7: pressing the exit button eventually leads to the stopped panel.  The
\* exit button is one of the keys, so a run in which every key is pressed
\* again and again presses it, and has to reach the stopped panel instead of
\* going round the polling loops for ever.
C7_ExitStopsEverything ==
    ( /\ \A k \in Keys : []<>(kev = <<k, TRUE>>)
      /\ []<>(tpc = "sleep")
      /\ []<>(ipc = "sleep") ) => <>Stopped

\* C8: for every key event (key, state) the callback runs the pressed() of
\* that key once if state is true and runs no pressed() if it is false; a
\* key-up sends and launches nothing.
C8_PressedOnKeyDownOnly ==
    kev # <<>>
        => /\ called = IF kev[2] THEN <<kev[1]>> ELSE <<>>
           /\ ~kev[2] => out = <<>> /\ launched = ""

\* a key-down of STREAM PAUSE has run its pressed()
C8_Witness ==
    /\ kev = <<KeyOf("STREAM PAUSE"), TRUE>>
    /\ called = <<KeyOf("STREAM PAUSE")>>
    /\ out = set_stream_blank \o SP \o pause \o NL

\* C9: a row whose first token is no known prefix changes no selected flag,
\* from the step that takes it up to the end of its redraw, does not end the
\* thread, and is followed by the next row of the chunk or the next recv.
C9_UnknownLineIgnored ==
    [][ /\ (rpc = "row" /\ rpc' # "row" /\ FirstToken(Head(rows)) \notin KnownPrefixes)
            => selected' = selected /\ rpc' = "render"
        /\ (rpc \in {"render", "write"} /\ FirstToken(row) \notin KnownPrefixes)
            => /\ selected' = selected
               /\ rpc' \in {"render", "write", "row", "recv"}
               /\ (rpc' \in {"row", "recv"}) => (rpc' = "row" <=> rows # <<>>) ]_vars

\* the line after an unknown line has been processed
C9_Witness ==
    /\ RowDone
    /\ prow = LineVideoStatus
    /\ row = LineScenePc
    /\ selected[KeyOf("PC FULL")]

\* a known prefix with too few tokens, a payload that is no JSON object, or
\* a payload without the channel of an audio button
Malformed(r) ==
    \/ FirstToken(r) = stream_status /\ Len(Split(r, " ")) < 2
    \/ /\ FirstToken(r) = audio_status
       /\ LET p == JsonLoads(SliceFrom(r, 13)) IN
            p.err \/ \E k \in AudioKeys : ~HasKey(p, Btn(k).channel)

\* C10: no step that RecvThread takes on a malformed row changes a selected
\* flag or ends the thread.
C10_MalformedLineDropped ==
    [][ LET r == IF rpc = "row" THEN Head(rows) ELSE row IN
        (rpc \in {"row", "stream", "audio"} /\ Malformed(r))
            => selected' = selected /\ rpc' # "dead" ]_vars

\* C11: once a read on the mixer connection has returned zero bytes the
\* status reader is not dead and does not read that connection again: its
\* next step is not another recv on the closed connection.
C11_NoReadAfterPeerClosed ==
    /\ [](eof => rpc # "dead")
    /\ [][ (eof /\ rpc = "recv") => rpc' = "recv" ]_vars

\* no thread is inside a redraw pass or between a change of a flag and the
\* redraw pass that follows it
NoPassInProgress ==
    /\ rpc \in {"recv", "row"}
    /\ tpc = "sleep" \/ (tpc = "poll" /\ ti = 1)

\* C12: whenever no redraw pass is in progress, the image last written to
\* every key but the video key is the one rendered from the button's current
\* selected flag.
C12_NoStaleImage ==
    NoPassInProgress =>
        \A k \in Keys \ {VideoKey} : image[k] = render_key_image(selected[k])

\* C13: however the stream is cut into reads, every row the status reader
\* parses is one whole line of the stream.
C13_RowsAreWholeLines ==
    /\ row \in Lines \cup {NoRow}
    /\ \A i \in 1..Len(rows) : rows[i] \in Lines

\* C14: as long as the video reader runs, every read it has made began at a
\* multiple of the frame size and returned a whole frame; a step that puts
\* the video on the key is such a read; a read that returns less ends the
\* loop and puts nothing on the key.
C14_FramesAreWhole ==
    /\ [](vpc = "recv" => voff = 0 /\ frame \in {0, FrameSize})
    /\ [][ (image'[VideoKey] = "video" /\ image[VideoKey] # "video")
              => (vpc = "recv" /\ voff = 0 /\ frame' = FrameSize) ]_vars
    /\ [][ (vpc = "recv" /\ vpc' # "recv")
              => (image' = image /\ frame' < FrameSize) ]_vars

\* a frame is on the key and a later read has returned half a frame
C14_Witness ==
    /\ image[VideoKey] = "video"
    /\ vpc = "dead"
    /\ frame = 5832
    /\ voff = 5832

\* C15: while the predicate of one update button does not return, the
\* command poller can still take a step, so that it comes to poll the other
\* update buttons again.
C15_HungPredicateDoesNotStall ==
    tpc = "hung" => ENABLED TickThread

\* C16: once an audio_status line with a payload of channels at 0 or 1 is
\* processed, at most one audio button is selected, and none is if no
\* channel of the payload is at 1.
C16_AtMostOneAudio ==
    LET p == JsonLoads(Payload(row)) IN
    (RowDone /\ FirstToken(row) = audio_status /\ ~p.err
        /\ \A b \in AudioKeys : HasKey(p, Btn(b).channel))
    => /\ Cardinality(SelectedIn(AudioKeys)) <= 1
       /\ (\A i \in 1..Len(p.obj) : p.obj[i][2] # 1) => SelectedIn(AudioKeys) = {}

\* C17: a redraw writes only keys whose appearance changes: no step of the
\* status reader or of the command poller sets on a key the image that the
\* key already shows.
C17_OnlyChangedKeysWritten ==
    [][ (rwrites' = rwrites + 1 \/ twrites' = twrites + 1) => image' # image ]_vars

\* the registry group of a scene or stream button
GroupOf(k) == IF k \in SceneKeys THEN SceneKeys ELSE StreamKeys

\* C18: for every scene button and every stream button, once the status line
\* that answers the button's command is processed, that button and no other
\* of its group is selected.
C18_RoundTrip ==
    \A k \in SceneKeys \cup StreamKeys :
        (RowDone /\ row = StatusFor(MixerCommand(k))) => SelectedIn(GroupOf(k)) = {k}

\* NO STREAM was pressed and answered after Picture in Picture had been
C18_Witness ==
    /\ RowDone
    /\ kev = <<KeyOf("NO STREAM"), TRUE>>
    /\ row = StatusFor(out)
    /\ SelectedIn(StreamKeys) = {KeyOf("NO STREAM")}
    /\ SelectedIn(SceneKeys) = {KeyOf("Picture in Picture")}

I3Hits(ws, k) == {i \in 1..Len(ws) : k \in I3Keys /\ ws[i].num = Btn(k).workspace}

\* C20: a round of the workspace poller whose raw output equals last_json
\* changes no selected flag, no image and not last_json; a round whose output
\* differs remembers that output, gives every workspace button named in the
\* list the visible flag of its workspace and changes no other flag.
C20_I3ShortCircuit ==
    [][ (ipc = "query" /\ ipc' = "sleep") =>
          IF workspaces' = last_json
          THEN selected' = selected /\ image' = image /\ last_json' = last_json
          ELSE /\ last_json' = workspaces'
               /\ LET ws == I3Workspaces(workspaces') IN
                  \A k \in Keys :
                      IF I3Hits(ws, k) = {} THEN selected'[k] = selected[k]
                      ELSE selected'[k] =
                             ws[CHOOSE i \in I3Hits(ws, k) : \A j \in I3Hits(ws, k) : j <= i].visible
      ]_vars

\* a round has found the output of the round before it
C20_Witness ==
    /\ ipc = "sleep"
    /\ ishort
    /\ workspaces = last_json
    /\ last_json \in I3Outputs
====
